---- MODULE Spec2Model ----
(***************************************************************************)
(* Model of src/server.js: the Express handlers for products, feedbacks    *)
(* and the Paystack payment flow (initiate / verify).                      *)
(*                                                                         *)
(* JavaScript values are tagged records, so that `!x` (falsiness), `===`   *)
(* and `Number(x)` are computed as the language computes them.  Numbers    *)
(* that reach arithmetic (`amount * 100`) are IEEE-754 doubles: a 53-bit   *)
(* significand held in three limbs of 18 bits, and a binary exponent.      *)
(***************************************************************************)
EXTENDS Integers, Sequences, FiniteSets, Bags, TLC

-----------------------------------------------------------------------------
(* IEEE-754 binary64 arithmetic, as far as `amount * 100` needs it.        *)
(* A positive double is mant * 2^exp with mant = <<l2, l1, l0>> standing   *)
(* for l2 * 2^36 + l1 * 2^18 + l0, 2^52 <= mant < 2^53.                    *)

Limb == 2^18
TopLimb == 2^16         \* smallest leading limb of a normal significand

\* floor(log2(num / den)) for 0 < num, den = 1 or 100
Exponent2(num, den) == CHOOSE e \in -8..30 :
  \/ e >= 0 /\ num >= den /\ (num \div den) \div 2^e = 1
  \/ e < 0 /\ num < den /\ den <= num * 2^(-e) /\ num * 2^(-e) < 2 * den

\* mant + 1, renormalised
RoundUp(d) ==
  LET l0 == d.mant[3] + 1
      l1 == d.mant[2] + (IF l0 = Limb THEN 1 ELSE 0)
      l2 == d.mant[1] + (IF l1 = Limb THEN 1 ELSE 0)
  IN IF l2 = 2 * TopLimb
     THEN [mant |-> <<TopLimb, 0, 0>>, exp |-> d.exp + 1]
     ELSE [mant |-> <<l2, l1 % Limb, l0 % Limb>>, exp |-> d.exp]

\* round to nearest, ties to even: `rest / whole` is the discarded fraction
RoundNearestEven(d, rest, whole) ==
  IF 2 * rest > whole \/ (2 * rest = whole /\ d.mant[3] % 2 = 1)
  THEN RoundUp(d) ELSE d

\* the double nearest to num / den (0 < num < den * 2^17, den = 1 or 100):
\* what JSON.parse makes of the decimal literal num/100
ToDouble(num, den) ==
  LET e  == Exponent2(num, den)
      n2 == num * 2^(16 - e)
      n1 == (n2 % den) * Limb
      n0 == (n1 % den) * Limb
  IN RoundNearestEven([mant |-> <<n2 \div den, n1 \div den, n0 \div den>>,
                       exp |-> e - 52],
                      n0 % den, den)

\* d * 100 in double arithmetic (the product is exact, then rounded once)
TimesHundred(d) ==
  LET p0 == d.mant[3] * 100
      p1 == d.mant[2] * 100 + p0 \div Limb
      p2 == d.mant[1] * 100 + p1 \div Limb
      d0 == p0 % Limb
      d1 == p1 % Limb
      s  == IF p2 >= 128 * TopLimb THEN 7 ELSE 6
      w  == 2^s
  IN RoundNearestEven(
       [mant |-> <<p2 \div w,
                   d1 \div w + (p2 % w) * (Limb \div w),
                   d0 \div w + (d1 % w) * (Limb \div w)>>,
        exp |-> d.exp + s],
       d0 % w, w)

\* the double d is exactly the natural number n (0 < n < 2^30)
IsInteger(d, n) ==
  LET e == Exponent2(n, 1)
      m == IF e <= 16 THEN <<n * 2^(16 - e), 0, 0>>
           ELSE <<n \div 2^(e - 16), (n % 2^(e - 16)) * 2^(34 - e), 0>>
  IN d.exp = e - 52 /\ d.mant = m

-----------------------------------------------------------------------------
(* JavaScript values                                                       *)

Undefined == [t |-> "undefined"]
Str(s) == [t |-> "string", v |-> s]
Num(c) == [t |-> "number", cents |-> c]       \* the JSON number c / 100
Arr(items) == [t |-> "array", v |-> items]

\* `!x`: undefined, "" and 0 are falsy; every array, the empty one too, is truthy
Falsy(x) ==
  \/ x.t = "undefined"
  \/ x.t = "string" /\ x.v = ""
  \/ x.t = "number" /\ x.cents = 0

\* a text field of a multipart form or of the query string, as its characters
Text(chars) == [t |-> "string", chars |-> chars]

DigitValue ==
  ("0" :> 0) @@ ("1" :> 1) @@ ("2" :> 2) @@ ("3" :> 3) @@ ("4" :> 4) @@
  ("5" :> 5) @@ ("6" :> 6) @@ ("7" :> 7) @@ ("8" :> 8) @@ ("9" :> 9)

RECURSIVE DecimalValue(_)
DecimalValue(chars) ==
  IF chars = << >> THEN 0
  ELSE 10 * DecimalValue(SubSeq(chars, 1, Len(chars) - 1))
         + DigitValue[chars[Len(chars)]]

NaN == [nan |-> TRUE]

\* Number(x) for x undefined, a string of decimal digits (the empty one too), or
\* a string holding a character that makes it no number (a letter)
ToNumber(x) ==
  IF x.t = "undefined" THEN NaN
  ELSE IF \A i \in 1..Len(x.chars) : x.chars[i] \in DOMAIN DigitValue
  THEN [nan |-> FALSE, v |-> DecimalValue(x.chars)]       \* Number("") is 0
  ELSE NaN

\* `Number(x) || dflt`: NaN and 0 are falsy
NumberOr(x, dflt) ==
  LET n == ToNumber(x) IN IF n.nan \/ n.v = 0 THEN dflt ELSE n.v

\* `amount * 100` on a JSON number: the sign, and the product of the magnitudes
JsTimesHundred(x) ==
  IF x.cents = 0 THEN [neg |-> FALSE, mant |-> <<0, 0, 0>>, exp |-> 0]
  ELSE LET a == IF x.cents < 0 THEN -x.cents ELSE x.cents
           p == TimesHundred(ToDouble(a, 100))
       IN [neg |-> x.cents < 0, mant |-> p.mant, exp |-> p.exp]

-----------------------------------------------------------------------------
(* Bounds and input sets                                                   *)

MaxClock == 1           \* Date.now() ranges over 0..MaxClock
MaxInFlight == 2        \* requests being handled at once
MaxCalls == 2           \* cap on the counter of gateway initialize calls

MaxProducts == 2        \* documents ever created in the Product collection
MaxFeedbacks == 21      \* documents in the Feedback collection

Clock == 0..MaxClock
ProductIds == 1..MaxProducts

PublicKey == Str("pk_test")      \* process.env.PAYSTACK_PUBLIC_KEY

\* "abwy_" + Date.now(): the prefix, and the digits of the timestamp
Reference(ts) == [t |-> "string", v |-> "abwy_", ts |-> ts]

RequiredFields == {"name", "address", "phone", "email", "cartItems", "amount"}

Checkout(a) ==
  [name |-> Str("Ada"), address |-> Str("12 Allen Avenue"), phone |-> Str("0801"),
   bus |-> Str("Ikeja"), email |-> Str("ada@example.ng"), mode |-> Str("delivery"),
   cartItems |-> Arr(<<"gown">>), amount |-> Num(a)]

\* amounts in hundredths: 5000, 19.99, 0 and -5
Amounts == {500000, 1999, 0, -500}

InitiateBodies ==
  {Checkout(a) : a \in Amounts}
    \cup {[Checkout(500000) EXCEPT ![f] = Undefined] : f \in RequiredFields}
    \cup {[Checkout(500000) EXCEPT !.cartItems = Arr(<< >>)],
          [Checkout(500000) EXCEPT !.email = Str("")]}

StockFields == {Undefined, Text(<< >>), Text(<<"0">>), Text(<<"3">>),
                Text(<<"1", "2">>), Text(<<"a", "b", "c">>)}
FlagFields == {Undefined, Str("true"), Str("false")}
ProductForms == [stock : StockFields, isOutOfStock : FlagFields]

LimitFields == {Undefined, Text(<<"0">>), Text(<<"2">>), Text(<<"2", "5">>),
                Text(<<"a", "l", "l">>)}

VerifyReferences == {Undefined, Str("")} \cup {Reference(ts) : ts \in Clock}

-----------------------------------------------------------------------------
(* State                                                                   *)

VARIABLES
  now,         \* Date.now()
  inflight,    \* bag of the requests awaiting their gateway call
  last,        \* the request answered most recently, with its response
  initCalls,   \* number of fetches of /transaction/initialize
  issued,      \* timestamp |-> number of 200 responses that returned abwy_<timestamp>
  gwTx,        \* Paystack: timestamp |-> state of the transaction abwy_<timestamp>
  gwMode,      \* Paystack: "up", "down" (fetch or json() throws), "garbled"
  products,    \* the Product collection: id |-> document
  lastWrite,   \* id |-> form fields of the last POST or PUT that wrote the product
  feedbacks,   \* the Feedback collection, in insertion order
  fbResp       \* the last answer of GET /api/feedbacks, with its query

vars == <<now, inflight, last, initCalls, issued, gwTx, gwMode,
          products, lastWrite, feedbacks, fbResp>>
catalogVars == <<products, lastWrite>>
feedbackVars == <<feedbacks, fbResp>>
paymentVars == <<inflight, last, initCalls, issued, gwTx, gwMode>>

NoRequest == [kind |-> "none"]
NoDocument == [kind |-> "none"]

Response(code, body) == [code |-> code, body |-> body]

Init ==
  /\ now = 0
  /\ inflight = EmptyBag
  /\ last = NoRequest
  /\ initCalls = 0
  /\ issued = [ts \in Clock |-> 0]
  /\ gwTx = [ts \in Clock |-> "none"]
  /\ gwMode = "up"
  /\ products = [id \in ProductIds |-> NoDocument]
  /\ lastWrite = [id \in ProductIds |-> NoDocument]
  /\ feedbacks = << >>
  /\ fbResp = NoRequest

-----------------------------------------------------------------------------
(* The environment: the clock and the payment gateway                      *)

Tick ==
  /\ now < MaxClock
  /\ now' = now + 1
  /\ UNCHANGED <<paymentVars, catalogVars, feedbackVars>>

GatewayMode(m) ==
  /\ gwMode # m
  /\ gwMode' = m
  /\ UNCHANGED <<now, inflight, last, initCalls, issued, gwTx, catalogVars, feedbackVars>>

\* the customer completes the payment in the widget
GatewayPay(ts) ==
  /\ gwTx[ts] = "abandoned"
  /\ gwTx' = [gwTx EXCEPT ![ts] = "success"]
  /\ UNCHANGED <<now, inflight, last, initCalls, issued, gwMode, catalogVars, feedbackVars>>

\* body of GET /transaction/verify/:reference, from the gateway's state
GatewayVerifyBody(mode, tx) ==
  IF mode = "garbled" THEN [status |-> TRUE, data |-> Undefined]
  ELSE IF tx = "none" THEN [status |-> FALSE, data |-> Undefined]
  ELSE [status |-> TRUE, data |-> [status |-> tx]]

-----------------------------------------------------------------------------
(* POST /api/payment/initiate                                              *)

\* variant: the check of `email` left out of the condition
MissingRequiredNoEmail(body) == \E f \in RequiredFields \ {"email"} : Falsy(body[f])

MissingRequired(body) == \E f \in RequiredFields : Falsy(body[f])

paystackPayload(body, reference) ==
  [email |-> body.email,
   amount |-> JsTimesHundred(body.amount),
   currency |-> "NGN",
   reference |-> reference,
   metadata |-> [customer_name |-> body.name, phone |-> body.phone,
                 address |-> body.address, bus |-> body.bus,
                 mode |-> body.mode, cartItems |-> body.cartItems]]

\* from the arrival of the request to the fetch being issued
InitiateRecv(body) ==
  /\ BagCardinality(inflight) < MaxInFlight
  /\ IF MissingRequired(body)
     THEN /\ last' = [kind |-> "initiate", body |-> body,
                      resp |-> Response(400, [error |-> "Missing required fields"])]
          /\ UNCHANGED <<inflight, initCalls>>
     ELSE /\ initCalls < MaxCalls
          /\ inflight' = inflight (+) SetToBag({
               [pc |-> "initFetch", body |-> body,
                payload |-> paystackPayload(body, Reference(now))]})
          /\ initCalls' = initCalls + 1
          /\ UNCHANGED last
  /\ UNCHANGED <<now, issued, gwTx, gwMode, catalogVars, feedbackVars>>

\* variant: the `if (!data.status)` return left out, so that a rejected call is
\* answered like an accepted one
InitiateReplyUnchecked(req, accepted) ==
  /\ BagIn(req, inflight)
  /\ req.pc = "initFetch"
  /\ gwMode = "garbled" => accepted
  /\ IF gwMode = "down"
     THEN last' = [kind |-> "initiate", body |-> req.body, payload |-> req.payload,
                   gateway |-> "threw",
                   resp |-> Response(500,
                     [error |-> "Server error during payment initiation"])]
     ELSE last' = [kind |-> "initiate", body |-> req.body, payload |-> req.payload,
                   gateway |-> IF accepted THEN "accepted" ELSE "rejected",
                   resp |-> Response(200,
                     [reference |-> req.payload.reference, publicKey |-> PublicKey])]
  /\ issued' = IF gwMode # "down"
               THEN [issued EXCEPT ![req.payload.reference.ts] = @ + 1] ELSE issued
  /\ gwTx' = IF gwMode # "down" /\ accepted
             THEN [gwTx EXCEPT ![req.payload.reference.ts] =
                     IF @ = "none" THEN "abandoned" ELSE @]
             ELSE gwTx
  /\ inflight' = inflight (-) SetToBag({req})
  /\ UNCHANGED <<now, initCalls, gwMode, catalogVars, feedbackVars>>

\* the gateway's answer, or the throw of fetch / response.json()
InitiateReply(req, accepted) ==
  /\ BagIn(req, inflight)
  /\ req.pc = "initFetch"
  /\ gwMode = "garbled" => accepted
  /\ LET ts == req.payload.reference.ts
     IN IF gwMode = "down"
        THEN /\ last' = [kind |-> "initiate", body |-> req.body, payload |-> req.payload,
                         gateway |-> "threw",
                         resp |-> Response(500,
                           [error |-> "Server error during payment initiation"])]
             /\ UNCHANGED <<issued, gwTx>>
        ELSE IF ~accepted
        THEN /\ last' = [kind |-> "initiate", body |-> req.body, payload |-> req.payload,
                         gateway |-> "rejected",
                         resp |-> Response(400,
                           [error |-> "Paystack initialization failed"])]
             /\ UNCHANGED <<issued, gwTx>>
        ELSE /\ last' = [kind |-> "initiate", body |-> req.body, payload |-> req.payload,
                         gateway |-> "accepted",
                         resp |-> Response(200,
                           [reference |-> req.payload.reference,
                            publicKey |-> PublicKey])]
             /\ issued' = [issued EXCEPT ![ts] = @ + 1]
             /\ gwTx' = [gwTx EXCEPT ![ts] = IF @ = "none" THEN "abandoned" ELSE @]
  /\ inflight' = inflight (-) SetToBag({req})
  /\ UNCHANGED <<now, initCalls, gwMode, catalogVars, feedbackVars>>

-----------------------------------------------------------------------------
(* POST /api/payment/verify                                                *)

\* what `await fetch(...)` and `await response.json()` give the handler
GatewayVerifyReply(mode, tx) ==
  IF mode = "down" THEN [threw |-> TRUE]
  ELSE [threw |-> FALSE, data |-> GatewayVerifyBody(mode, tx)]

\* variant: the catch answers a soft "failed" instead of the 500
VerifyResponseSoftFail(reply) ==
  IF reply.threw \/ ~reply.data.status \/ reply.data.data = Undefined
  THEN Response(200, [status |-> "failed", message |-> "Payment verification failed"])
  ELSE IF reply.data.data.status = "success"
  THEN Response(200, [status |-> "success", message |-> "Payment verified"])
  ELSE Response(200, [status |-> "failed", message |-> "Payment verification failed"])

\* variant: the test of data.data.status left out of the condition
VerifyResponseAnyTrue(reply) ==
  IF reply.threw
  THEN Response(500, [error |-> "Server error during verification"])
  ELSE IF reply.data.status
  THEN Response(200, [status |-> "success", message |-> "Payment verified"])
  ELSE Response(200, [status |-> "failed", message |-> "Payment verification failed"])

\* the try block after the fetch, and the catch
VerifyResponse(reply) ==
  IF reply.threw
  THEN Response(500, [error |-> "Server error during verification"])
  ELSE IF ~reply.data.status
  THEN Response(200, [status |-> "failed", message |-> "Payment verification failed"])
  ELSE IF reply.data.data = Undefined      \* data.data.status throws a TypeError
  THEN Response(500, [error |-> "Server error during verification"])
  ELSE IF reply.data.data.status = "success"
  THEN Response(200, [status |-> "success", message |-> "Payment verified"])
  ELSE Response(200, [status |-> "failed", message |-> "Payment verification failed"])

VerifyRecv(reference) ==
  /\ BagCardinality(inflight) < MaxInFlight
  /\ IF Falsy(reference)
     THEN /\ last' = [kind |-> "verify", reference |-> reference,
                      resp |-> Response(400, [error |-> "Reference required"])]
          /\ UNCHANGED inflight
     ELSE /\ inflight' = inflight (+) SetToBag({
               [pc |-> "verifyFetch", reference |-> reference]})
          /\ UNCHANGED last
  /\ UNCHANGED <<now, initCalls, issued, gwTx, gwMode, catalogVars, feedbackVars>>

\* variant: the outcome of an earlier verification of the same reference is kept
\* and answered again without looking at the gateway's reply
VerifyReplyCached(req) ==
  /\ BagIn(req, inflight)
  /\ req.pc = "verifyFetch"
  /\ LET reply == GatewayVerifyReply(gwMode, gwTx[req.reference.ts])
         hit   == /\ last.kind = "verify"
                  /\ last.reference = req.reference
                  /\ last.resp.code = 200
     IN last' = [kind |-> "verify", reference |-> req.reference, reply |-> reply,
                 resp |-> IF hit THEN last.resp ELSE VerifyResponse(reply)]
  /\ inflight' = inflight (-) SetToBag({req})
  /\ UNCHANGED <<now, initCalls, issued, gwTx, gwMode, catalogVars, feedbackVars>>

VerifyReply(req) ==
  /\ BagIn(req, inflight)
  /\ req.pc = "verifyFetch"
  /\ LET reply == GatewayVerifyReply(gwMode, gwTx[req.reference.ts])
     IN last' = [kind |-> "verify", reference |-> req.reference,
                 reply |-> reply, resp |-> VerifyResponse(reply)]
  /\ inflight' = inflight (-) SetToBag({req})
  /\ UNCHANGED <<now, initCalls, issued, gwTx, gwMode, catalogVars, feedbackVars>>

-----------------------------------------------------------------------------
(* Products                                                                *)

Deleted == [kind |-> "deleted"]

\* the _id of a new document: never one that was used before
FreshId == CHOOSE id \in ProductIds :
  products[id] = NoDocument /\ \A j \in 1..(id - 1) : products[j] # NoDocument

\* POST /products (name, category, price and desc are taken to be valid; the
\* document is reduced to the fields the stock logic writes)
PostProduct(hasFile, form) ==
  /\ IF ~hasFile
     THEN UNCHANGED catalogVars                      \* 400 "Image required"
     ELSE /\ \E id \in ProductIds : products[id] = NoDocument
          /\ LET parsedStock == NumberOr(form.stock, 0)
                 outStatus   == form.isOutOfStock = Str("true") \/ parsedStock = 0
             IN products' = [products EXCEPT ![FreshId] =
                  [kind |-> "product", stock |-> parsedStock,
                   isOutOfStock |-> outStatus]]
          /\ lastWrite' = [lastWrite EXCEPT ![FreshId] = form]
  /\ UNCHANGED <<now, paymentVars, feedbackVars>>

\* PUT /products/:id (name, category, price, desc and image are not modelled)
PutProduct(id, form) ==
  /\ LET parsedStock == ToNumber(form.stock)
         updateData  ==
           IF ~parsedStock.nan
           THEN [stock |-> parsedStock.v,
                 isOutOfStock |-> form.isOutOfStock = Str("true") \/ parsedStock.v = 0]
           ELSE [stock |-> products[id].stock,
                 isOutOfStock |-> products[id].isOutOfStock]
     IN IF products[id].kind = "product"
        THEN /\ products' = [products EXCEPT ![id] =
                  [kind |-> "product", stock |-> updateData.stock,
                   isOutOfStock |-> updateData.isOutOfStock]]
             /\ lastWrite' = [lastWrite EXCEPT ![id] = form]
        ELSE UNCHANGED catalogVars                   \* findByIdAndUpdate gives null
  /\ UNCHANGED <<now, paymentVars, feedbackVars>>

\* DELETE /products/:id
DeleteProduct(id) ==
  /\ products[id].kind = "product"
  /\ products' = [products EXCEPT ![id] = Deleted]
  /\ lastWrite' = [lastWrite EXCEPT ![id] = NoDocument]
  /\ UNCHANGED <<now, paymentVars, feedbackVars>>

-----------------------------------------------------------------------------
(* Feedbacks                                                               *)

DefaultLimit == 20

\* POST /api/feedbacks
PostFeedback(name, message) ==
  /\ IF Falsy(name) \/ Falsy(message)
     THEN UNCHANGED feedbacks                        \* 400 "All fields required"
     ELSE /\ Len(feedbacks) < MaxFeedbacks
          /\ feedbacks' = Append(feedbacks,
               [name |-> name, message |-> message, createdAt |-> now])
  /\ UNCHANGED <<now, fbResp, paymentVars, catalogVars>>

\* variant: .sort({createdAt: 1})
RECURSIVE OldestFirst(_, _)
OldestFirst(docs, t) ==
  IF t < 0 THEN << >>
  ELSE OldestFirst(docs, t - 1) \o SelectSeq(docs, LAMBDA d : d.createdAt = t)

\* .sort({createdAt: -1}) over documents stamped 0..t: the order of documents
\* with equal createdAt is the collection's
RECURSIVE NewestFirst(_, _)
NewestFirst(docs, t) ==
  IF t < 0 THEN << >>
  ELSE SelectSeq(docs, LAMBDA d : d.createdAt = t) \o NewestFirst(docs, t - 1)

\* .limit(n), n > 0
Limit(docs, n) == SubSeq(docs, 1, IF n < Len(docs) THEN n ELSE Len(docs))

\* GET /api/feedbacks?limit=... (`stored` records how many documents the
\* collection held when the query ran)
GetFeedbacks(query) ==
  /\ LET limit == NumberOr(query, DefaultLimit)
     IN fbResp' = [kind |-> "feedbacks", query |-> query, stored |-> Len(feedbacks),
                   body |-> Limit(NewestFirst(feedbacks, now), limit)]
  /\ UNCHANGED <<now, feedbacks, paymentVars, catalogVars>>

-----------------------------------------------------------------------------
Next ==
  \/ Tick
  \/ \E m \in {"up", "down", "garbled"} : GatewayMode(m)
  \/ \E ts \in Clock : GatewayPay(ts)
  \/ \E body \in InitiateBodies : InitiateRecv(body)
  \/ \E req \in BagToSet(inflight), accepted \in BOOLEAN : InitiateReply(req, accepted)
  \/ \E reference \in VerifyReferences : VerifyRecv(reference)
  \/ \E req \in BagToSet(inflight) : VerifyReply(req)

Spec == Init /\ [][Next]_vars

NextCatalog ==
  \/ \E hasFile \in BOOLEAN, form \in ProductForms : PostProduct(hasFile, form)
  \/ \E id \in ProductIds, form \in ProductForms : PutProduct(id, form)
  \/ \E id \in ProductIds : DeleteProduct(id)

SpecCatalog == Init /\ [][NextCatalog]_vars

NextFeedback ==
  \/ Tick
  \/ \E name \in {Undefined, Str(""), Str("Bola")},
        message \in {Undefined, Str("Lovely gown")} : PostFeedback(name, message)
  \/ \E query \in LimitFields : GetFeedbacks(query)

SpecFeedback == Init /\ [][NextFeedback]_vars

-----------------------------------------------------------------------------
(* Properties                                                              *)

HasField(r, f) == f \in DOMAIN r
Pending(pc) == {req \in BagToSet(inflight) : req.pc = pc}
AnsweredInitiate == last.kind = "initiate"
AnsweredByGateway == HasField(last, "gateway")
AnsweredVerify == last.kind = "verify" /\ HasField(last, "reply")

\* C1: no reference is returned by two successful initiate calls.
NoReferenceIssuedTwice == \A ts \in Clock : issued[ts] <= 1

\* C2 as stated: a verify whose gateway call throws is answered with a normal
\* result of status "failed".
TransportFailureAnswersFailed ==
  (AnsweredVerify /\ last.reply.threw) =>
    /\ last.resp.code = 200
    /\ HasField(last.resp.body, "status")
    /\ last.resp.body.status = "failed"

\* C2 as amended: a verify whose gateway call throws is answered with HTTP 500
\* and an error body that carries no status.
TransportFailureAnswersError ==
  (AnsweredVerify /\ last.reply.threw) =>
    /\ last.resp.code = 500
    /\ HasField(last.resp.body, "error")
    /\ ~HasField(last.resp.body, "status")

TransportFailureSeen ==
  AnsweredVerify /\ last.reply.threw /\ ~Falsy(last.reference)

\* C3: an initiate request in which a required field is absent is answered with
\* HTTP 400 and leaves the number of gateway initialize calls as it was.
AbsentField(body) == \E f \in RequiredFields : body[f] = Undefined

MissingFieldMakesNoGatewayCall ==
  [][\A body \in InitiateBodies :
       (AbsentField(body) /\ InitiateRecv(body)) =>
         /\ initCalls' = initCalls
         /\ inflight' = inflight
         /\ last'.kind = "initiate"
         /\ last'.body = body
         /\ last'.resp.code = 400]_vars

MissingFieldSeen ==
  /\ AnsweredInitiate
  /\ AbsentField(last.body)
  /\ last.resp.code = 400
  /\ initCalls = 0

\* C4: a checkout with every field present but an empty cartItems or an amount
\* that is not greater than 0 is answered with the validation error and never
\* reaches the gateway.
InvalidValue(body) ==
  /\ ~AbsentField(body)
  /\ \/ body.cartItems.v = << >>
     \/ body.amount.cents <= 0

InvalidValueRejected ==
  /\ \A req \in Pending("initFetch") : ~InvalidValue(req.body)
  /\ (AnsweredInitiate /\ InvalidValue(last.body)) =>
       last.resp.code = 400 /\ ~AnsweredByGateway

StockFlagDerived ==
  \A id \in ProductIds :
    products[id].kind = "product" =>
      LET doc   == products[id]
          form  == lastWrite[id]
          stock == ToNumber(form.stock)
          asked == form.isOutOfStock = Str("true")
      IN /\ (doc.stock = 0 \/ asked) => doc.isOutOfStock
         /\ (~stock.nan /\ stock.v > 0 /\ ~asked) => ~doc.isOutOfStock

\* C7: initiate returns a reference and the public key only when the gateway
\* accepted the initialize call that carried this reference; when the gateway
\* rejected the call or the call threw, the body is an error with neither.
ReferenceOnlyAfterAcceptance ==
  AnsweredInitiate =>
    LET body == last.resp.body IN
    /\ (HasField(body, "reference") \/ HasField(body, "publicKey")) =>
         /\ AnsweredByGateway
         /\ last.gateway = "accepted"
         /\ body.reference = last.payload.reference
         /\ body.publicKey = PublicKey
         /\ gwTx[body.reference.ts] # "none"
    /\ (AnsweredByGateway /\ last.gateway \in {"rejected", "threw"}) =>
         /\ HasField(body, "error")
         /\ ~HasField(body, "reference")
         /\ ~HasField(body, "publicKey")

ReferenceReturned ==
  /\ AnsweredInitiate
  /\ last.resp.code = 200
  /\ HasField(last.resp.body, "reference")

\* C8: whenever a pending verify is answered, the answer is the one the gateway's
\* state for that reference gives at that moment, whatever was answered before:
\* "success" for a paid transaction, "failed" for an unpaid or unknown one, an
\* error while the gateway cannot be read.
Verdict(resp) == IF resp.code = 200 THEN resp.body.status ELSE "error"

GatewayVerdict(mode, tx) ==
  IF mode # "up" THEN "error" ELSE IF tx = "success" THEN "success" ELSE "failed"

VerifyAnswersFromGatewayState ==
  [][\A req \in Pending("verifyFetch") :
       inflight' = inflight (-) SetToBag({req}) =>
         /\ last'.kind = "verify"
         /\ last'.reference = req.reference
         /\ Verdict(last'.resp) = GatewayVerdict(gwMode, gwTx[req.reference.ts])]_vars

RepeatedVerifySeen ==
  /\ AnsweredVerify
  /\ last.resp.code = 200
  /\ last.resp.body.status = "success"
  /\ \E req \in Pending("verifyFetch") : req.reference = last.reference

\* C9 as stated: GET /api/feedbacks with a numeric limit N returns min(N, stored)
\* feedbacks, and at most 20 without a limit.
Min(a, b) == IF a < b THEN a ELSE b

FeedbackCountIsMinOfLimit ==
  fbResp.kind = "feedbacks" =>
    LET n == ToNumber(fbResp.query)
    IN IF n.nan THEN Len(fbResp.body) <= DefaultLimit
       ELSE Len(fbResp.body) = Min(n.v, fbResp.stored)

\* C9 as amended: with a limit N >= 1 the answer holds the min(N, stored) most
\* recently created feedbacks, newest first; with the limit absent, 0 or not a
\* number it holds the min(20, stored) most recent ones.
CountAt(docs, t) == Cardinality({i \in 1..Len(docs) : docs[i].createdAt = t})

FeedbacksNewestFirstCapped ==
  fbResp.kind = "feedbacks" =>
    LET n    == ToNumber(fbResp.query)
        cap  == IF n.nan \/ n.v = 0 THEN DefaultLimit ELSE n.v
        body == fbResp.body
        docs == SubSeq(feedbacks, 1, fbResp.stored)
    IN /\ Len(body) = Min(cap, fbResp.stored)
       /\ \A i, j \in 1..Len(body) : i < j => body[i].createdAt >= body[j].createdAt
       /\ \A t \in Clock :
            /\ CountAt(body, t) <= CountAt(docs, t)
            /\ CountAt(body, t) < CountAt(docs, t) =>
                 \A i \in 1..Len(body) : body[i].createdAt >= t

FeedbackLimitTwoOfFive ==
  /\ fbResp.kind = "feedbacks"
  /\ fbResp.query = Text(<<"2">>)
  /\ fbResp.stored = 5
  /\ Len(fbResp.body) = 2
  /\ \E i \in 1..5 : feedbacks[i].createdAt # fbResp.body[1].createdAt

\* C10: the payload sent to the gateway for a checkout of amount a > 0 has the
\* amount 100 * a, the currency NGN, the customer's email, and the checkout
\* fields unchanged in its metadata.
PayloadCarriesCheckout(body, payload) ==
  /\ body.amount.cents > 0 =>
       ~payload.amount.neg /\ IsInteger(payload.amount, body.amount.cents)
  /\ payload.currency = "NGN"
  /\ payload.email = body.email
  /\ payload.metadata = [customer_name |-> body.name, phone |-> body.phone,
                         address |-> body.address, bus |-> body.bus,
                         mode |-> body.mode, cartItems |-> body.cartItems]

PayloadAmountIsHundredTimes ==
  \A req \in Pending("initFetch") : PayloadCarriesCheckout(req.body, req.payload)

=============================================================================
